---- MODULE Spec2Model ----
(***************************************************************************)
(* finance-track: credit-card billing cycles, installment purchases,       *)
(* invoice payment and the monthly views (core/models.py, core/forms.py,   *)
(* core/views.py).                                                         *)
(*                                                                         *)
(* The ledger store is modelled as two tables whose index is the primary   *)
(* key: invoices and transactions.  Amounts are in cents.  Dates are       *)
(* records [year, month, day]; a record whose day does not exist in its    *)
(* month stands for the ValueError that datetime.date(...) raises.         *)
(***************************************************************************)
EXTENDS Integers, Sequences, FiniteSets, TLC

VARIABLES
    cards,          \* CreditCard table: pk -> [closing_day, due_day]
    invoices,       \* Invoice table: pk -> row
    transactions,   \* Transaction table: pk -> row
    categories,     \* Category table: the set of category names
    procs,          \* concurrent Transaction.save calls: their position and locals
    payments,       \* history: <<invoice pk, transaction pk>> of every payment registered
    last            \* history: the most recent request and its outcome

vars == <<cards, invoices, transactions, categories, procs, payments, last>>

----------------------------------------------------------------------------
(* Bounds of the model *)

MaxTx == 3              \* rows of the Transaction table
MaxInv == 2             \* rows of the Invoice table
MaxBillingTx == 2       \* rows of the Transaction table, billing-cycle runs
MaxBillingInv == 2      \* rows of the Invoice table, billing-cycle runs
MaxPayTx == 3           \* rows of the Transaction table, payment runs
MaxPayInv == 2          \* rows of the Invoice table, payment runs
MaxPaidTx == 2          \* rows of the Transaction table, invoice-life runs
MaxPaidInv == 2         \* rows of the Invoice table, invoice-life runs
MaxBatchTx == 3         \* rows of the Transaction table, installment runs
MaxInstallments == 3    \* installments of one purchase
NumProcs == 2           \* concurrent Transaction.save calls
MaxAccountsTx == 2      \* rows of the Transaction table, account runs
MaxAccountsInv == 2     \* rows of the Invoice table, account runs
MaxLedgerTx == 3        \* rows of the Transaction table, monthly-view runs
MaxLedgerInv == 2       \* rows of the Invoice table, monthly-view runs
MaxRoundTx == 4         \* rows of the Transaction table, rounding runs
MaxRoundAmount == 20    \* the largest small total of a purchase, in cents

----------------------------------------------------------------------------
(* Calendar: datetime.date and dateutil.relativedelta *)

NoPk == 0               \* a null foreign key
NoCategory == ""        \* category = None
PaymentCategoryName == "Pagamento de Fatura"

D(y, m, d) == [year |-> y, month |-> m, day |-> d]

NoDate == D(0, 0, 0)    \* payment_date = None

IsLeap(y) == (y % 4 = 0 /\ y % 100 # 0) \/ y % 400 = 0

DaysInMonth(y, m) ==
    IF m = 2 THEN (IF IsLeap(y) THEN 29 ELSE 28)
    ELSE IF m \in {4, 6, 9, 11} THEN 30 ELSE 31

\* datetime.date(y, m, d) raises ValueError unless this holds
IsDate(x) ==
    /\ x.month \in 1..12
    /\ x.day >= 1
    /\ x.day <= DaysInMonth(x.year, x.month)

Min(a, b) == IF a <= b THEN a ELSE b

\* d + relativedelta(months=n): the month moves, the year carries, and the
\* day is clipped to the last day of the target month
AddMonths(d, n) ==
    LET k == (d.month - 1) + n
        y == d.year + (k \div 12)
        m == (k % 12) + 1
    IN  D(y, m, Min(d.day, DaysInMonth(y, m)))

----------------------------------------------------------------------------
(* Transaction.save: validation and invoice assignment *)

\* faulty variant, for comparison: only the case of both accounts is refused
CleanOKNotBoth(t) ==
    ~(t.bank_account # NoPk /\ t.credit_card # NoPk)

\* Transaction.clean: exactly one of bank_account and credit_card
CleanOK(t) ==
    /\ ~(t.bank_account # NoPk /\ t.credit_card # NoPk)
    /\ ~(t.bank_account = NoPk /\ t.credit_card = NoPk)

\* faulty variant, for comparison: the closing day itself is pushed to the next cycle
InvoiceEndDateStrict(card, trans_date) ==
    IF trans_date.day < card.closing_day
    THEN D(trans_date.year, trans_date.month, card.closing_day)
    ELSE LET next_month == AddMonths(trans_date, 1)
         IN  D(next_month.year, next_month.month, card.closing_day)

InvoiceEndDate(card, trans_date) ==
    IF trans_date.day <= card.closing_day
    THEN D(trans_date.year, trans_date.month, card.closing_day)
    ELSE LET next_month == AddMonths(trans_date, 1)
         IN  D(next_month.year, next_month.month, card.closing_day)

InvoiceDueDate(card, invoice_end_date) ==
    IF card.due_day > card.closing_day
    THEN D(invoice_end_date.year, invoice_end_date.month, card.due_day)
    ELSE LET due_date_month == AddMonths(invoice_end_date, 1)
         IN  D(due_date_month.year, due_date_month.month, card.due_day)

NewInvoice(card_pk, end_date, due_date) ==
    [credit_card |-> card_pk, end_date |-> end_date, due_date |-> due_date,
     is_paid |-> FALSE, payment_date |-> NoDate]

\* the rows Invoice.objects.get(credit_card=..., end_date=...) matches
InvoiceLookup(invs, card_pk, end_date) ==
    {i \in DOMAIN invs :
        invs[i].credit_card = card_pk /\ invs[i].end_date = end_date}

\* faulty variant, for comparison: create in place of get_or_create
GetOrCreateAlwaysInserts(invs, card_pk, end_date, due_date) ==
    [ok |-> TRUE,
     invoices |-> Append(invs, NewInvoice(card_pk, end_date, due_date)),
     invoice |-> Len(invs) + 1]

\* Invoice.objects.get_or_create run alone: get raises MultipleObjectsReturned
\* on several rows, and create inserts when there is none
GetOrCreate(invs, card_pk, end_date, due_date) ==
    LET found == InvoiceLookup(invs, card_pk, end_date)
    IN  IF Cardinality(found) > 1
        THEN [ok |-> FALSE, invoices |-> invs, invoice |-> NoPk]
        ELSE IF found = {}
        THEN [ok |-> TRUE,
              invoices |-> Append(invs, NewInvoice(card_pk, end_date, due_date)),
              invoice |-> Len(invs) + 1]
        ELSE [ok |-> TRUE, invoices |-> invs,
              invoice |-> CHOOSE i \in found : TRUE]

\* Transaction.save on instance t; pk = NoPk inserts, otherwise updates row pk.
\* db is [transactions, invoices]; the result adds ok and the row's pk.
StoreRow(txs, pk, t) ==
    IF pk = NoPk THEN Append(txs, t) ELSE [txs EXCEPT ![pk] = t]

Failed(db) ==
    [ok |-> FALSE, pk |-> NoPk,
     transactions |-> db.transactions, invoices |-> db.invoices]

TransactionSave(db, pk, t) ==
    IF ~CleanOK(t) THEN Failed(db)
    ELSE IF t.credit_card # NoPk
    THEN LET card == cards[t.credit_card]
             invoice_end_date == InvoiceEndDate(card, t.date)
             invoice_due_date == InvoiceDueDate(card, invoice_end_date)
         IN  IF ~IsDate(invoice_end_date) THEN Failed(db)
             ELSE IF ~IsDate(invoice_due_date) THEN Failed(db)
             ELSE LET r == GetOrCreate(db.invoices, t.credit_card,
                                       invoice_end_date, invoice_due_date)
                  IN  IF ~r.ok THEN Failed(db)
                      ELSE [ok |-> TRUE,
                            pk |-> IF pk = NoPk THEN Len(db.transactions) + 1 ELSE pk,
                            transactions |->
                                StoreRow(db.transactions, pk,
                                         [t EXCEPT !.invoice = r.invoice]),
                            invoices |-> r.invoices]
    ELSE [ok |-> TRUE,
          pk |-> IF pk = NoPk THEN Len(db.transactions) + 1 ELSE pk,
          transactions |-> StoreRow(db.transactions, pk, t),
          invoices |-> db.invoices]

----------------------------------------------------------------------------
(* TransactionForm and the transaction views *)

BankChoice(pk) == [type |-> "bankaccount", id |-> pk]
CardChoice(pk) == [type |-> "creditcard", id |-> pk]

Plain(text) == [text |-> text, idx |-> 0, of |-> 0]

\* f"{description} ({i + 1}/{installments})"
Suffixed(description, i, installments) ==
    [text |-> description.text, idx |-> i + 1, of |-> installments]

\* TransactionForm.clean: account_choice decides the instance's two foreign keys
FormAccounts(t, account_choice) ==
    IF account_choice.type = "bankaccount"
    THEN [t EXCEPT !.bank_account = account_choice.id, !.credit_card = NoPk]
    ELSE IF account_choice.type = "creditcard"
    THEN [t EXCEPT !.credit_card = account_choice.id, !.bank_account = NoPk]
    ELSE t

\* TransactionForm.clean: an installment purchase needs its count and frequency
FormValid(is_installment, installments, frequency) ==
    ~(is_installment /\ (installments = 0 \/ frequency = ""))

\* faulty variant, for comparison: the quotient is cut to whole cents
InstallmentAmountTruncated(total_amount, installments) ==
    total_amount \div installments

\* round(total_amount / installments, 2) on Decimal: half to even, in cents
InstallmentAmount(total_amount, installments) ==
    LET q == total_amount \div installments
        r == total_amount % installments
    IN  IF 2 * r < installments THEN q
        ELSE IF 2 * r > installments THEN q + 1
        ELSE IF q % 2 = 0 THEN q ELSE q + 1

\* a Transaction instance not yet saved
NewTransaction(description, amount, transaction_type, date, category) ==
    [description |-> description, amount |-> amount,
     transaction_type |-> transaction_type, date |-> date,
     category |-> category, bank_account |-> NoPk, credit_card |-> NoPk,
     invoice |-> NoPk, is_invoice_payment |-> FALSE]

\* faulty variant, for comparison: each installment is dated one month after the previous one
RECURSIVE ChainedDate(_, _)
ChainedDate(start_date, i) ==
    IF i = 0 THEN start_date ELSE AddMonths(ChainedDate(start_date, i - 1), 1)

RECURSIVE CreateInstallmentsChained(_, _, _, _)
CreateInstallmentsChained(db, i, installments, first) ==
    IF i >= installments
    THEN [ok |-> TRUE, pk |-> Len(db.transactions),
          transactions |-> db.transactions, invoices |-> db.invoices]
    ELSE LET t == [first EXCEPT
                     !.description = Suffixed(first.description, i, installments),
                     !.date = ChainedDate(first.date, i)]
             r == TransactionSave(db, NoPk, t)
         IN  IF ~r.ok THEN Failed(db)
             ELSE CreateInstallmentsChained(
                      [transactions |-> r.transactions, invoices |-> r.invoices],
                      i + 1, installments, first)

\* TransactionCreateView.form_valid, the installment loop from i on: each
\* Transaction.objects.create is committed on its own, and an exception leaves
\* the loop with the rows created so far in place
RECURSIVE CreateInstallments(_, _, _, _)
CreateInstallments(db, i, installments, first) ==
    IF i >= installments
    THEN [ok |-> TRUE, pk |-> Len(db.transactions),
          transactions |-> db.transactions, invoices |-> db.invoices]
    ELSE LET installment_date == AddMonths(first.date, i)
             t == [first EXCEPT
                     !.description = Suffixed(first.description, i, installments),
                     !.date = installment_date]
             r == TransactionSave(db, NoPk, t)
         IN  IF ~r.ok THEN Failed(db)
             ELSE CreateInstallments(
                      [transactions |-> r.transactions, invoices |-> r.invoices],
                      i + 1, installments, first)

Db == [transactions |-> transactions, invoices |-> invoices]

\* the outcome of a request: "ok", "invalid" (the form is shown again with its
\* errors) or "error" (an exception left the view)
Request(op, outcome) == [op |-> op, outcome |-> outcome]

Outcome(ok) == IF ok THEN "ok" ELSE "error"

\* POST add/ : TransactionCreateView with TransactionForm
TransactionCreate(description, amount, transaction_type, date, category, account_choice, is_installment, installments, frequency) ==
    LET instance == FormAccounts(
                        NewTransaction(description, amount, transaction_type,
                                       date, category),
                        account_choice)
    IN  /\ IF ~FormValid(is_installment, installments, frequency)
           THEN /\ UNCHANGED <<transactions, invoices>>
                /\ last' = Request("create", "invalid")
           ELSE LET r == IF is_installment
                         THEN CreateInstallments(
                                  Db, 0, installments,
                                  [instance EXCEPT !.amount =
                                      InstallmentAmount(amount, installments)])
                         ELSE TransactionSave(Db, NoPk, instance)
                IN  /\ transactions' = r.transactions
                    /\ invoices' = r.invoices
                    /\ last' = Request("create", Outcome(r.ok))
        /\ UNCHANGED <<cards, categories, procs, payments>>

\* faulty variant, for comparison: an edit writes the row and leaves its invoice alone
TransactionUpdateKeepsInvoice(pk, description, amount, transaction_type, date, category, account_choice) ==
    /\ pk \in DOMAIN transactions
    /\ LET instance == FormAccounts(
                           [transactions[pk] EXCEPT
                               !.description = description,
                               !.amount = amount,
                               !.transaction_type = transaction_type,
                               !.date = date,
                               !.category = category],
                           account_choice)
       IN  /\ transactions' = StoreRow(transactions, pk, instance)
           /\ invoices' = invoices
           /\ last' = Request("update", Outcome(CleanOK(instance)))
    /\ UNCHANGED <<cards, categories, procs, payments>>

\* POST <pk>/edit/ : TransactionUpdateView with TransactionForm; the default
\* form_valid is form.save(), which runs Transaction.save on the edited row
TransactionUpdate(pk, description, amount, transaction_type, date, category, account_choice) ==
    /\ pk \in DOMAIN transactions
    /\ LET instance == FormAccounts(
                           [transactions[pk] EXCEPT
                               !.description = description,
                               !.amount = amount,
                               !.transaction_type = transaction_type,
                               !.date = date,
                               !.category = category],
                           account_choice)
           r == TransactionSave(Db, pk, instance)
       IN  /\ transactions' = r.transactions
           /\ invoices' = r.invoices
           /\ last' = Request("update", Outcome(r.ok))
    /\ UNCHANGED <<cards, categories, procs, payments>>

\* Transaction.save called on an instance whose two accounts the caller set
\* directly (Transaction.objects.create(...), or instance.save() on row pk):
\* the ValidationError of full_clean leaves save before anything is written
SaveInstance(pk, description, amount, transaction_type, date, category, bank_account, credit_card) ==
    /\ pk \in {NoPk} \cup DOMAIN transactions
    /\ LET base == IF pk = NoPk
                   THEN NewTransaction(description, amount, transaction_type,
                                       date, category)
                   ELSE [transactions[pk] EXCEPT
                            !.description = description,
                            !.amount = amount,
                            !.transaction_type = transaction_type,
                            !.date = date,
                            !.category = category]
           instance == [base EXCEPT !.bank_account = bank_account,
                                    !.credit_card = credit_card]
           r == TransactionSave(Db, pk, instance)
       IN  /\ transactions' = r.transactions
           /\ invoices' = r.invoices
           /\ last' = Request("save", Outcome(r.ok))
    /\ UNCHANGED <<cards, categories, procs, payments>>

----------------------------------------------------------------------------
(* The invoice views *)

\* faulty variant, for comparison: an edit that unchecks is_paid also clears payment_date
InvoiceUpdateClearsPaymentDate(pk, end_date, due_date, is_paid) ==
    /\ pk \in DOMAIN invoices
    /\ invoices' = [invoices EXCEPT ![pk] =
                       [@ EXCEPT !.end_date = end_date,
                                 !.due_date = due_date,
                                 !.is_paid = is_paid,
                                 !.payment_date =
                                     IF is_paid THEN @ ELSE NoDate]]
    /\ last' = Request("invoice_update", "ok")
    /\ UNCHANGED <<cards, transactions, categories, procs, payments>>

\* POST invoices/<pk>/edit/ : InvoiceUpdateView with InvoiceForm, whose fields
\* are end_date, due_date and is_paid
InvoiceUpdate(pk, end_date, due_date, is_paid) ==
    /\ pk \in DOMAIN invoices
    /\ invoices' = [invoices EXCEPT ![pk] =
                       [@ EXCEPT !.end_date = end_date,
                                 !.due_date = due_date,
                                 !.is_paid = is_paid]]
    /\ last' = Request("invoice_update", "ok")
    /\ UNCHANGED <<cards, transactions, categories, procs, payments>>

\* invoice.transaction_set.aggregate(Sum("amount"))["amount__sum"] or 0
RECURSIVE SumAmounts(_, _, _)
SumAmounts(txs, invoice_pk, k) ==
    IF k = 0 THEN 0
    ELSE SumAmounts(txs, invoice_pk, k - 1)
         + (IF txs[k].invoice = invoice_pk THEN txs[k].amount ELSE 0)

\* faulty variant, for comparison: only the expenses of the invoice are added up
RECURSIVE SumExpenses(_, _, _)
SumExpenses(txs, invoice_pk, k) ==
    IF k = 0 THEN 0
    ELSE SumExpenses(txs, invoice_pk, k - 1)
         + (IF txs[k].invoice = invoice_pk /\ txs[k].transaction_type = "OUT"
            THEN txs[k].amount ELSE 0)

InvoiceTotalExpensesOnly(txs, invoice_pk) ==
    SumExpenses(txs, invoice_pk, Len(txs))

InvoiceTotal(txs, invoice_pk) == SumAmounts(txs, invoice_pk, Len(txs))

\* invoice.display_description
DisplayDescription(invoice_pk) == Plain("Fatura")

\* InvoicePaymentView.form_valid
InvoicePayment(pk, payment_date, bank_account) ==
    /\ pk \in DOMAIN invoices
    /\ LET total_amount == InvoiceTotal(transactions, pk)
           t == [NewTransaction(DisplayDescription(pk), total_amount, "OUT",
                                payment_date, PaymentCategoryName)
                    EXCEPT !.bank_account = bank_account,
                           !.is_invoice_payment = TRUE]
           r == TransactionSave(Db, NoPk, t)
       IN  /\ categories' = categories \cup {PaymentCategoryName}
           /\ transactions' = r.transactions
           /\ IF r.ok
              THEN /\ invoices' = [r.invoices EXCEPT ![pk] =
                                     [@ EXCEPT !.is_paid = TRUE,
                                               !.payment_date = payment_date]]
                   /\ payments' = payments \cup {<<pk, r.pk>>}
              ELSE /\ invoices' = r.invoices
                   /\ UNCHANGED payments
           /\ last' = Request("pay", Outcome(r.ok))
    /\ UNCHANGED <<cards, procs>>

----------------------------------------------------------------------------
(* Invoice.start_date *)

DateLt(a, b) ==
    \/ a.year < b.year
    \/ a.year = b.year /\ a.month < b.month
    \/ a.year = b.year /\ a.month = b.month /\ a.day < b.day

\* d + timedelta(days=1) and d - timedelta(days=1)
NextDay(d) ==
    IF d.day < DaysInMonth(d.year, d.month) THEN D(d.year, d.month, d.day + 1)
    ELSE IF d.month < 12 THEN D(d.year, d.month + 1, 1)
    ELSE D(d.year + 1, 1, 1)

PrevDay(d) ==
    IF d.day > 1 THEN D(d.year, d.month, d.day - 1)
    ELSE IF d.month > 1
    THEN D(d.year, d.month - 1, DaysInMonth(d.year, d.month - 1))
    ELSE D(d.year - 1, 12, 31)

\* d + timedelta(days=n), n of either sign
RECURSIVE AddDays(_, _)
AddDays(d, n) ==
    IF n = 0 THEN d
    ELSE IF n > 0 THEN AddDays(NextDay(d), n - 1)
    ELSE AddDays(PrevDay(d), n + 1)

\* Invoice.start_date of invoice i: the day after the latest earlier closing
\* of the same card, or 29 days before its own closing
StartDate(invs, i) ==
    LET earlier == {k \in DOMAIN invs :
                       /\ invs[k].credit_card = invs[i].credit_card
                       /\ DateLt(invs[k].end_date, invs[i].end_date)}
    IN  IF earlier # {}
        THEN LET previous_invoice ==
                     CHOOSE k \in earlier :
                         \A x \in earlier :
                             ~DateLt(invs[k].end_date, invs[x].end_date)
             IN  AddDays(invs[previous_invoice].end_date, 1)
        ELSE AddDays(invs[i].end_date, 0 - 29)

----------------------------------------------------------------------------
(* The monthly views: TransactionListView and TransactionConsolidatedView *)

\* date__year = year, date__month = month; a null date matches no month
InMonth(d, year, month) == d.year = year /\ d.month = month

\* MonthlyNavigationMixin.get_context_data: prev_month when the earliest
\* transaction is before the month, next_month when the latest is after it;
\* NoDate stands for a key left out of the context
MonthlyNavigation(txs, year, month) ==
    LET current_month_date == D(year, month, 1)
        following == AddMonths(current_month_date, 1)
    IN  [current_month |-> current_month_date,
         prev_month |->
            IF \E j \in DOMAIN txs : DateLt(txs[j].date, current_month_date)
            THEN AddMonths(current_month_date, 0 - 1) ELSE NoDate,
         next_month |->
            IF \E j \in DOMAIN txs : ~DateLt(txs[j].date, following)
            THEN following ELSE NoDate]

\* Transaction.account_display
AccountDisplay(t) ==
    IF t.bank_account # NoPk THEN BankChoice(t.bank_account)
    ELSE IF t.credit_card # NoPk THEN CardChoice(t.credit_card)
    ELSE [type |-> "N/A", id |-> NoPk]

CategoryDisplay(t) ==
    IF t.category # NoCategory THEN t.category ELSE "Sem Categoria"

RECURSIVE SumItems(_)
SumItems(items) ==
    IF items = <<>> THEN 0 ELSE Head(items).amount + SumItems(Tail(items))

\* the items of a list in descending order of date, items of one date in the
\* order they had
RECURSIVE InsertByDate(_, _)
InsertByDate(sorted, item) ==
    IF sorted = <<>> THEN <<item>>
    ELSE IF DateLt(Head(sorted).date, item.date) THEN <<item>> \o sorted
    ELSE <<Head(sorted)>> \o InsertByDate(Tail(sorted), item)

RECURSIVE SortedByDateDesc(_)
SortedByDateDesc(items) ==
    IF items = <<>> THEN <<>>
    ELSE InsertByDate(SortedByDateDesc(SubSeq(items, 1, Len(items) - 1)),
                      items[Len(items)])

\* the rows of a table a query keeps, as items, in the order of their keys
ItemsOf(n, keep, item) ==
    LET Kept(k) == k \in keep
        keys == SelectSeq([k \in 1..n |-> k], Kept)
    IN  [x \in 1..Len(keys) |-> item[keys[x]]]

\* TransactionListView.get_context_data
TransactionList(txs, year, month) ==
    LET listed == {j \in DOMAIN txs :
                      /\ InMonth(txs[j].date, year, month)
                      /\ ~txs[j].is_invoice_payment}
        item == [j \in DOMAIN txs |->
                    [date |-> txs[j].date,
                     description |-> txs[j].description,
                     category |-> CategoryDisplay(txs[j]),
                     account_display |-> AccountDisplay(txs[j]),
                     amount |-> txs[j].amount,
                     transaction_type |-> txs[j].transaction_type,
                     is_invoice |-> FALSE,
                     object |-> j]]
        items == SortedByDateDesc(ItemsOf(Len(txs), listed, item))
        Income(x) == x.transaction_type = "IN"
        Expense(x) == x.transaction_type = "OUT"
        current_month_income == SumItems(SelectSeq(items, Income))
        current_month_expenses == SumItems(SelectSeq(items, Expense))
    IN  [items |-> items,
         current_month_income |-> current_month_income,
         current_month_expenses |-> current_month_expenses,
         monthly_balance |-> current_month_income - current_month_expenses,
         active_view |-> "detailed",
         navigation |-> MonthlyNavigation(txs, year, month)]

\* faulty variant, for comparison: the payment rows are kept among the bank transactions
BankTransactionsWithPayments(txs, year, month, j) ==
    /\ InMonth(txs[j].date, year, month)
    /\ txs[j].bank_account # NoPk

\* bank_transactions of TransactionConsolidatedView: row j is kept
BankTransactions(txs, year, month, j) ==
    /\ InMonth(txs[j].date, year, month)
    /\ txs[j].bank_account # NoPk
    /\ ~txs[j].is_invoice_payment

\* faulty variant, for comparison: every invoice due in the month is kept
RelevantInvoicesByDueDate(invs, year, month, i) ==
    InMonth(invs[i].due_date, year, month)

\* relevant_invoices of TransactionConsolidatedView: row i is kept
RelevantInvoices(invs, year, month, i) ==
    \/ InMonth(invs[i].due_date, year, month) /\ ~invs[i].is_paid
    \/ InMonth(invs[i].payment_date, year, month) /\ invs[i].is_paid

\* TransactionConsolidatedView.get_context_data
Consolidated(txs, invs, year, month) ==
    LET current_month_date == D(year, month, 1)
        bank_transactions ==
            {j \in DOMAIN txs : BankTransactions(txs, year, month, j)}
        tx_item == [j \in DOMAIN txs |->
                      [date |-> txs[j].date,
                       description |-> txs[j].description,
                       category |-> CategoryDisplay(txs[j]),
                       account_display |-> AccountDisplay(txs[j]),
                       amount |-> txs[j].amount,
                       transaction_type |-> txs[j].transaction_type,
                       is_invoice |-> FALSE,
                       is_predicted |-> FALSE,
                       object |-> j]]
        relevant_invoices ==
            {i \in DOMAIN invs : RelevantInvoices(invs, year, month, i)}
        invoice_item == [i \in DOMAIN invs |->
                      [date |-> IF invs[i].is_paid THEN invs[i].payment_date
                                ELSE invs[i].due_date,
                       description |-> DisplayDescription(i),
                       category |-> "Cartão de Crédito",
                       account_display |-> CardChoice(invs[i].credit_card),
                       amount |-> InvoiceTotal(txs, i),
                       transaction_type |-> "OUT",
                       is_invoice |-> TRUE,
                       is_predicted |-> ~invs[i].is_paid,
                       object |-> i]]
        items == ItemsOf(Len(txs), bank_transactions, tx_item)
                 \o ItemsOf(Len(invs), relevant_invoices, invoice_item)
        past_transactions ==
            {j \in DOMAIN txs : /\ DateLt(txs[j].date, current_month_date)
                                /\ txs[j].bank_account # NoPk}
        past_income ==
            SumItems(ItemsOf(Len(txs),
                             {j \in past_transactions :
                                 txs[j].transaction_type = "IN"}, txs))
        past_expenses ==
            SumItems(ItemsOf(Len(txs),
                             {j \in past_transactions :
                                 txs[j].transaction_type = "OUT"}, txs))
        previous_balance == past_income - past_expenses
        RealizedIncome(item) ==
            item.transaction_type = "IN" /\ ~item.is_predicted
        RealizedExpense(item) ==
            item.transaction_type = "OUT" /\ ~item.is_predicted
        Predicted(item) == item.is_predicted
        realized_income == SumItems(SelectSeq(items, RealizedIncome))
        realized_expenses == SumItems(SelectSeq(items, RealizedExpense))
        predicted_expenses_from_invoices ==
            SumItems(SelectSeq(items, Predicted))
        predicted_income == realized_income
        predicted_expenses ==
            realized_expenses + predicted_expenses_from_invoices
    IN  [items |-> SortedByDateDesc(items),
         previous_balance |-> previous_balance,
         realized_income |-> realized_income,
         predicted_income |-> predicted_income,
         realized_expenses |-> realized_expenses,
         predicted_expenses |-> predicted_expenses,
         real_balance |-> previous_balance + realized_income - realized_expenses,
         predicted_balance |->
            previous_balance + predicted_income - predicted_expenses,
         active_view |-> "consolidated",
         navigation |-> MonthlyNavigation(txs, year, month)]

\* what a GET of a monthly view answers
Response(op, year, month, context) ==
    [op |-> op, outcome |-> "ok", year |-> year, month |-> month,
     context |-> context]

\* GET of TransactionListView for a month: the store is left as it is
TransactionListGet(year, month) ==
    /\ last' = Response("list", year, month,
                        TransactionList(transactions, year, month))
    /\ UNCHANGED <<cards, invoices, transactions, categories, procs, payments>>

\* GET of TransactionConsolidatedView for a month
ConsolidatedGet(year, month) ==
    /\ last' = Response("consolidated", year, month,
                        Consolidated(transactions, invoices, year, month))
    /\ UNCHANGED <<cards, invoices, transactions, categories, procs, payments>>

----------------------------------------------------------------------------------------------------------------------------------------
(* Configuration and inputs *)

BankAccounts == {1}
CardPks == {1, 2}

\* card 1 is the card of the documented scenario; card 2 closes on a day that
\* short months do not have and is due later in the month of its closing
CardTable == <<[closing_day |-> 25, due_day |-> 10],
               [closing_day |-> 30, due_day |-> 31]>>

Descriptions == {Plain("Compra")}
AccountChoices == {BankChoice(b) : b \in BankAccounts}
                  \cup {CardChoice(c) : c \in CardPks}

\* the installment fields of TransactionForm: installments is empty (0) or at
\* least 2 (min_value), installment_frequency is empty or "monthly"
Purchase(is_installment, installments, frequency) ==
    [is_installment |-> is_installment, installments |-> installments,
     frequency |-> frequency]
Single == Purchase(FALSE, 0, "")
Installments(max) == {Purchase(TRUE, n, "monthly") : n \in 2..max}
IncompletePurchases == {Purchase(TRUE, 0, "monthly"), Purchase(TRUE, 2, "")}

Procs == 1..NumProcs

IdleProc ==
    [pc |-> "idle", t |-> NewTransaction(Plain(""), 0, "OUT", NoDate, NoCategory),
     end_date |-> NoDate, due_date |-> NoDate, invoice |-> NoPk]

Init ==
    /\ cards = CardTable
    /\ invoices = <<>>
    /\ transactions = <<>>
    /\ categories = {"Mercado"}
    /\ procs = [p \in Procs |-> IdleProc]
    /\ payments = {}
    /\ last = Request("none", "ok")

\* the tables stay within the bounds of the input record I
Bounded(I) ==
    /\ Len(transactions') <= I.max_tx
    /\ Len(invoices') <= I.max_inv

\* the rows a purchase asks for
Rows(purchase) ==
    IF purchase.is_installment THEN purchase.installments ELSE 1

\* The requests the views accept, over the input sets of the record I
Creates(I) ==
    \E description \in I.descriptions, amount \in I.amounts,
       transaction_type \in I.types, date \in I.dates,
       category \in I.categories, account_choice \in I.account_choices,
       purchase \in I.purchases :
        /\ Len(transactions) + Rows(purchase) <= I.max_tx
        /\ TransactionCreate(description, amount, transaction_type, date,
                             category, account_choice, purchase.is_installment,
                             purchase.installments, purchase.frequency)
        /\ Bounded(I)

Updates(I) ==
    \E pk \in DOMAIN transactions, description \in I.descriptions,
       amount \in I.amounts, transaction_type \in I.types,
       date \in I.update_dates, category \in I.categories,
       account_choice \in I.update_choices :
        /\ TransactionUpdate(pk, description, amount, transaction_type, date,
                             category, account_choice)
        /\ Bounded(I)

InvoiceUpdates(I) ==
    \E pk \in DOMAIN invoices, end_date \in I.edit_end_dates,
       due_date \in I.edit_due_dates, is_paid \in I.edit_paid :
        InvoiceUpdate(pk, end_date, due_date, is_paid)

Payments(I) ==
    \E pk \in DOMAIN invoices, payment_date \in I.payment_dates,
       bank_account \in BankAccounts :
        /\ InvoicePayment(pk, payment_date, bank_account)
        /\ Bounded(I)

Saves(I) ==
    \E pk \in {NoPk} \cup DOMAIN transactions,
       description \in I.descriptions, amount \in I.amounts,
       transaction_type \in I.types, date \in I.dates,
       category \in I.categories, bank_account \in I.save_banks,
       credit_card \in I.save_cards :
        /\ SaveInstance(pk, description, amount, transaction_type, date,
                        category, bank_account, credit_card)
        /\ Bounded(I)

ListGets(I) ==
    \E m \in I.months : TransactionListGet(m[1], m[2])

ConsolidatedGets(I) ==
    \E m \in I.months : ConsolidatedGet(m[1], m[2])

----------------------------------------------------------------------------
(* Concurrent requests: Transaction.save as the store sees it, one statement
   at a time.  get_or_create is a SELECT and, when it finds no row, an INSERT;
   the Invoice table declares no unique constraint, so the INSERT never
   conflicts. *)

StartProc(card_pk, date) ==
    [IdleProc EXCEPT
        !.pc = "get",
        !.t = FormAccounts(NewTransaction(Plain("Compra"), 10000, "OUT", date,
                                          NoCategory),
                           CardChoice(card_pk))]

\* full_clean, the two dates, and the SELECT of get_or_create
SaveGet(p) ==
    /\ procs[p].pc = "get"
    /\ LET t == procs[p].t
           card == cards[t.credit_card]
           invoice_end_date == InvoiceEndDate(card, t.date)
           invoice_due_date == InvoiceDueDate(card, invoice_end_date)
           found == InvoiceLookup(invoices, t.credit_card, invoice_end_date)
       IN  procs' = [procs EXCEPT ![p] =
              IF ~CleanOK(t) \/ ~IsDate(invoice_end_date)
                 \/ ~IsDate(invoice_due_date) \/ Cardinality(found) > 1
              THEN [@ EXCEPT !.pc = "error"]
              ELSE IF found = {}
              THEN [@ EXCEPT !.pc = "create",
                             !.end_date = invoice_end_date,
                             !.due_date = invoice_due_date]
              ELSE [@ EXCEPT !.pc = "save",
                             !.end_date = invoice_end_date,
                             !.due_date = invoice_due_date,
                             !.invoice = CHOOSE i \in found : TRUE]]
    /\ UNCHANGED <<cards, invoices, transactions, categories, payments, last>>

\* the INSERT of get_or_create
SaveCreate(p) ==
    /\ procs[p].pc = "create"
    /\ invoices' = Append(invoices,
                          NewInvoice(procs[p].t.credit_card, procs[p].end_date,
                                     procs[p].due_date))
    /\ procs' = [procs EXCEPT ![p] =
                    [@ EXCEPT !.pc = "save", !.invoice = Len(invoices) + 1]]
    /\ UNCHANGED <<cards, transactions, categories, payments, last>>

\* self.invoice = invoice; super().save()
SaveStore(p) ==
    /\ procs[p].pc = "save"
    /\ transactions' = Append(transactions,
                              [procs[p].t EXCEPT !.invoice = procs[p].invoice])
    /\ procs' = [procs EXCEPT ![p] = [@ EXCEPT !.pc = "done"]]
    /\ last' = Request("create", "ok")
    /\ UNCHANGED <<cards, invoices, categories, payments>>

RaceDates == {D(2024, 1, 20), D(2024, 1, 25), D(2024, 1, 26)}

RaceInit ==
    /\ cards = CardTable
    /\ invoices = <<>>
    /\ transactions = <<>>
    /\ categories = {"Mercado"}
    /\ procs \in [Procs -> {StartProc(c, d) : c \in CardPks, d \in RaceDates}]
    /\ payments = {}
    /\ last = Request("none", "ok")

RaceNext ==
    \E p \in Procs :
        \/ SaveGet(p)
        \/ SaveCreate(p)
        \/ SaveStore(p)

SpecRace == RaceInit /\ [][RaceNext]_vars

----------------------------------------------------------------------------
(* The sequential specifications *)

\* every view, over few inputs
Inputs ==
    [descriptions |-> Descriptions, amounts |-> {10000}, types |-> {"OUT"},
     dates |-> {D(2024, 1, 20), D(2024, 1, 31)}, categories |-> {NoCategory},
     account_choices |-> AccountChoices,
     update_dates |-> {D(2024, 1, 31)},
     update_choices |-> {BankChoice(1), CardChoice(1)},
     purchases |-> {Single} \cup Installments(2) \cup IncompletePurchases,
     edit_end_dates |-> {D(2024, 1, 25)}, edit_due_dates |-> {D(2024, 2, 10)},
     edit_paid |-> BOOLEAN, payment_dates |-> {D(2024, 2, 10)},
     max_tx |-> MaxTx, max_inv |-> MaxInv]

Next ==
    \/ Creates(Inputs)
    \/ Updates(Inputs)
    \/ InvoiceUpdates(Inputs)
    \/ Payments(Inputs)

Spec == Init /\ [][Next]_vars

\* billing cycles: single purchases on both cards over dates on either side of
\* the closing days, at a month's end and at the year's end
BillingInputs ==
    [descriptions |-> Descriptions, amounts |-> {10000}, types |-> {"OUT"},
     dates |-> {D(2024, 1, 20), D(2024, 1, 25), D(2024, 1, 26),
                D(2024, 1, 31), D(2024, 12, 26)},
     categories |-> {NoCategory},
     account_choices |-> {CardChoice(c) : c \in CardPks},
     update_dates |-> {D(2024, 1, 26)},
     update_choices |-> {CardChoice(1)},
     purchases |-> {Single},
     edit_end_dates |-> {D(2024, 1, 25)}, edit_due_dates |-> {D(2024, 2, 10)},
     edit_paid |-> {FALSE}, payment_dates |-> {},
     max_tx |-> MaxBillingTx, max_inv |-> MaxBillingInv]

BillingNext ==
    \/ Creates(BillingInputs)
    \/ Updates(BillingInputs)
    \/ InvoiceUpdates(BillingInputs)

SpecBilling == Init /\ [][BillingNext]_vars

\* payments: purchases and refunds of two amounts on a card and on the bank
\* account, invoices edited and paid on two dates
PayInputs ==
    [descriptions |-> Descriptions, amounts |-> {10000, 2505},
     types |-> {"OUT", "IN"}, dates |-> {D(2024, 1, 20)},
     categories |-> {NoCategory},
     account_choices |-> {CardChoice(1), BankChoice(1)},
     update_dates |-> {}, update_choices |-> {},
     purchases |-> {Single},
     edit_end_dates |-> {D(2024, 1, 25)}, edit_due_dates |-> {D(2024, 2, 10)},
     edit_paid |-> BOOLEAN,
     payment_dates |-> {D(2024, 2, 10), D(2024, 3, 5)},
     max_tx |-> MaxPayTx, max_inv |-> MaxPayInv]

PayNext ==
    \/ Creates(PayInputs)
    \/ InvoiceUpdates(PayInputs)
    \/ Payments(PayInputs)

SpecPay == Init /\ [][PayNext]_vars

\* the life of an invoice: every view takes part, over few inputs and short
\* tables
PaidInputs ==
    [descriptions |-> Descriptions, amounts |-> {10000},
     types |-> {"OUT"}, dates |-> {D(2024, 1, 20)},
     categories |-> {NoCategory},
     account_choices |-> {CardChoice(1), BankChoice(1)},
     update_dates |-> {D(2024, 1, 26)},
     update_choices |-> {CardChoice(1)},
     purchases |-> {Single} \cup Installments(2),
     edit_end_dates |-> {D(2024, 1, 25)}, edit_due_dates |-> {D(2024, 2, 10)},
     edit_paid |-> BOOLEAN,
     payment_dates |-> {D(2024, 2, 10), D(2024, 3, 5)},
     max_tx |-> MaxPaidTx, max_inv |-> MaxPaidInv]

PaidNext ==
    \/ Creates(PaidInputs)
    \/ Updates(PaidInputs)
    \/ InvoiceUpdates(PaidInputs)
    \/ Payments(PaidInputs)

SpecPaid == Init /\ [][PaidNext]_vars

\* installment purchases of up to MaxInstallments on every account, from a
\* mid-month day, a month's last day and the year's end
BatchInputs ==
    [descriptions |-> Descriptions, amounts |-> {10000, 2505},
     types |-> {"OUT", "IN"},
     dates |-> {D(2024, 1, 15), D(2024, 1, 31), D(2024, 12, 26)},
     categories |-> {NoCategory, "Mercado"},
     account_choices |-> AccountChoices,
     update_dates |-> {}, update_choices |-> {},
     purchases |-> Installments(MaxInstallments),
     edit_end_dates |-> {}, edit_due_dates |-> {}, edit_paid |-> {},
     payment_dates |-> {},
     max_tx |-> MaxBatchTx, max_inv |-> MaxBatchTx]

BatchNext == Creates(BatchInputs)

SpecBatch == Init /\ [][BatchNext]_vars

\* accounts: purchases on the bank account and on card 1 either side of its
\* closing day, edits that move a row to the other account, and saves of
\* instances with any combination of the two accounts
AccountsInputs ==
    [descriptions |-> Descriptions, amounts |-> {10000}, types |-> {"OUT"},
     dates |-> {D(2024, 1, 20), D(2024, 1, 26)}, categories |-> {NoCategory},
     account_choices |-> {BankChoice(1), CardChoice(1)},
     update_dates |-> {D(2024, 1, 20), D(2024, 1, 26)},
     update_choices |-> {BankChoice(1), CardChoice(1)},
     purchases |-> {Single},
     save_banks |-> {NoPk} \cup BankAccounts, save_cards |-> {NoPk, 1},
     max_tx |-> MaxAccountsTx, max_inv |-> MaxAccountsInv]

AccountsNext ==
    \/ Creates(AccountsInputs)
    \/ Updates(AccountsInputs)
    \/ Saves(AccountsInputs)

SpecAccounts == Init /\ [][AccountsNext]_vars

\* the same purchases and edits through the transaction views alone
EditsNext ==
    \/ Creates(AccountsInputs)
    \/ Updates(AccountsInputs)

SpecEdits == Init /\ [][EditsNext]_vars

\* the monthly views: purchases and refunds in January on card 1, either
\* side of its closing day, and on the bank account, the invoices edited and
\* paid in March, and both views asked for January and for March
LedgerInputs ==
    [descriptions |-> Descriptions, amounts |-> {10000},
     types |-> {"OUT", "IN"}, dates |-> {D(2024, 1, 20), D(2024, 1, 26)},
     categories |-> {NoCategory},
     account_choices |-> {CardChoice(1), BankChoice(1)},
     purchases |-> {Single},
     edit_end_dates |-> {D(2024, 1, 25)}, edit_due_dates |-> {D(2024, 2, 10)},
     edit_paid |-> BOOLEAN,
     payment_dates |-> {D(2024, 3, 5)},
     months |-> {<<2024, 1>>, <<2024, 3>>},
     max_tx |-> MaxLedgerTx, max_inv |-> MaxLedgerInv]

LedgerNext ==
    \/ Creates(LedgerInputs)
    \/ InvoiceUpdates(LedgerInputs)
    \/ Payments(LedgerInputs)
    \/ ListGets(LedgerInputs)
    \/ ConsolidatedGets(LedgerInputs)

SpecLedger == Init /\ [][LedgerNext]_vars

\* rounding: installment purchases of every small total, negative ones
\* included, and of 100.00, in 2 to MaxInstallments parts
RoundInputs ==
    [descriptions |-> Descriptions,
     amounts |-> ((0 - 5)..MaxRoundAmount) \cup {10000},
     types |-> {"OUT"}, dates |-> {D(2024, 1, 15)},
     categories |-> {NoCategory},
     account_choices |-> {BankChoice(1), CardChoice(1)},
     update_dates |-> {}, update_choices |-> {},
     purchases |-> Installments(MaxInstallments),
     edit_end_dates |-> {}, edit_due_dates |-> {}, edit_paid |-> {},
     payment_dates |-> {},
     max_tx |-> MaxRoundTx, max_inv |-> MaxRoundTx]

RoundNext == Creates(RoundInputs)

SpecRound == Init /\ [][RoundNext]_vars

----------------------------------------------------------------------------
(* Properties *)

\* C1: in every reachable state there is at most one Invoice for each
\* (credit_card, end_date) pair.
C1_OneInvoicePerCardAndEndDate ==
    \A i, j \in DOMAIN invoices :
        (invoices[i].credit_card = invoices[j].credit_card
         /\ invoices[i].end_date = invoices[j].end_date) => i = j

\* the billing cycle a date falls in, counted in months: the cycle of month m
\* ends on the closing day of m and starts after the closing day of m - 1
CycleIndex(closing_day, date) ==
    date.year * 12 + (date.month - 1)
    + (IF date.day > closing_day THEN 1 ELSE 0)

SameCycle(p, q) ==
    /\ procs[p].t.credit_card = procs[q].t.credit_card
    /\ CycleIndex(cards[procs[p].t.credit_card].closing_day, procs[p].t.date)
       = CycleIndex(cards[procs[q].t.credit_card].closing_day, procs[q].t.date)

\* C2: when two Transaction.save calls for the same card and the same new
\* billing cycle run concurrently, then once both have finished exactly one
\* Invoice exists for the cycle and both transactions are linked to it.
C2_ConcurrentSavesShareOneInvoice ==
    \A p, q \in Procs :
        (p # q /\ procs[p].pc = "done" /\ procs[q].pc = "done" /\ SameCycle(p, q))
        => /\ Cardinality(InvoiceLookup(invoices, procs[p].t.credit_card,
                                        procs[p].end_date)) = 1
           /\ procs[p].invoice = procs[q].invoice

\* C5: saving a credit-card transaction never fails on the card's closing or
\* due day: whatever the card and the date, the request ends without an
\* exception.
C5_SaveNeverFails ==
    last.op = "create" => last.outcome # "error"

\* C6: after any sequence of pay operations an invoice has at most one
\* payment: a second pay of the same Invoice registers nothing.
C6_AtMostOnePaymentPerInvoice ==
    \A x, y \in payments : x[1] = y[1] => x = y

\* C9: a create request that fails leaves none of its transactions and no
\* invoice created for them in the store.
C9_FailedCreateLeavesNothing ==
    [][(last'.op = "create" /\ last'.outcome = "error")
       => (transactions' = transactions /\ invoices' = invoices)]_vars

\* a single purchase of card_pk on date, as TransactionForm hands it to save
CardPurchase(card_pk, date) ==
    FormAccounts(NewTransaction(Plain("Compra"), 10000, "OUT", date, NoCategory),
                 CardChoice(card_pk))

\* C3: from every reachable store, for every card and any two credit-card
\* transactions saved one after the other: when their dates fall in the same
\* billing cycle the second save creates no Invoice and both are linked to the
\* same Invoice; when they fall in adjacent cycles they are linked to two
\* distinct Invoices.
C3_SameCycleSameInvoice ==
    \A c \in CardPks, d1, d2 \in BillingInputs.dates :
        LET r1 == TransactionSave(Db, NoPk, CardPurchase(c, d1))
            r2 == TransactionSave([transactions |-> r1.transactions,
                                   invoices |-> r1.invoices],
                                  NoPk, CardPurchase(c, d2))
            k1 == CycleIndex(cards[c].closing_day, d1)
            k2 == CycleIndex(cards[c].closing_day, d2)
        IN  /\ (r1.ok /\ k1 = k2)
               => /\ r2.ok
                  /\ r2.invoices = r1.invoices
                  /\ r2.transactions[r2.pk].invoice
                     = r2.transactions[r1.pk].invoice
            /\ (r1.ok /\ r2.ok /\ (k1 = k2 + 1 \/ k2 = k1 + 1))
               => r2.transactions[r2.pk].invoice
                  # r2.transactions[r1.pk].invoice

\* two purchases of one card created one after the other in the same cycle
\* share the only Invoice of the store
C3_Witness ==
    /\ Len(transactions) = 2
    /\ Len(invoices) = 1
    /\ last = Request("create", "ok")
    /\ transactions[1].credit_card = transactions[2].credit_card
    /\ transactions[1].credit_card # NoPk
    /\ transactions[1].date # transactions[2].date
    /\ CycleIndex(cards[transactions[1].credit_card].closing_day,
                  transactions[1].date)
       = CycleIndex(cards[transactions[2].credit_card].closing_day,
                    transactions[2].date)
    /\ transactions[1].invoice = 1
    /\ transactions[2].invoice = 1

\* the closing date the cycle of a date has, and the due date that follows it
ExpectedEndDate(card, date) ==
    LET k == CycleIndex(card.closing_day, date)
    IN  D(k \div 12, (k % 12) + 1, card.closing_day)

ExpectedDueDate(card, end_date) ==
    LET k == end_date.year * 12 + (end_date.month - 1)
             + (IF card.due_day > card.closing_day THEN 0 ELSE 1)
    IN  D(k \div 12, (k % 12) + 1, card.due_day)

\* the rows of the Transaction table a step inserted or changed
Saved(j) ==
    \/ j \notin DOMAIN transactions
    \/ transactions'[j] # transactions[j]

\* C4: every Invoice a step creates belongs to a credit-card transaction that
\* the step saved, ends on the closing day of the transaction's month when
\* day <= closing_day and of the following month otherwise, is due on
\* due_day of the closing month when due_day > closing_day and of the month
\* after otherwise, and is unpaid.
C4_CreatedInvoiceDates ==
    [][\A k \in (Len(invoices) + 1)..Len(invoices') :
          \E j \in DOMAIN transactions' :
              /\ Saved(j)
              /\ transactions'[j].credit_card # NoPk
              /\ transactions'[j].invoice = k
              /\ LET t == transactions'[j]
                     card == cards[t.credit_card]
                     end_date == ExpectedEndDate(card, t.date)
                 IN  invoices'[k] =
                        [credit_card |-> t.credit_card,
                         end_date |-> end_date,
                         due_date |-> ExpectedDueDate(card, end_date),
                         is_paid |-> FALSE,
                         payment_date |-> NoDate]]_vars

\* the documented scenario: card 1 closes on 25 and is due on 10; a purchase
\* of 2024-01-26 has the invoice 2024-02-25 due 2024-03-10, one of 2024-01-20
\* the invoice 2024-01-25 due 2024-02-10
C4_Witness ==
    \E i, j \in DOMAIN transactions :
        /\ transactions[i].credit_card = 1
        /\ transactions[i].date = D(2024, 1, 26)
        /\ transactions[i].invoice \in DOMAIN invoices
        /\ invoices[transactions[i].invoice] =
              [credit_card |-> 1, end_date |-> D(2024, 2, 25),
               due_date |-> D(2024, 3, 10), is_paid |-> FALSE,
               payment_date |-> NoDate]
        /\ transactions[j].credit_card = 1
        /\ transactions[j].date = D(2024, 1, 20)
        /\ transactions[j].invoice \in DOMAIN invoices
        /\ invoices[transactions[j].invoice] =
              [credit_card |-> 1, end_date |-> D(2024, 1, 25),
               due_date |-> D(2024, 2, 10), is_paid |-> FALSE,
               payment_date |-> NoDate]

\* the total of the rows linked to an invoice, added up row by row over the
\* set of their keys
RECURSIVE AmountOf(_, _)
AmountOf(txs, keys) ==
    IF keys = {} THEN 0
    ELSE LET j == CHOOSE x \in keys : TRUE
         IN  txs[j].amount + AmountOf(txs, keys \ {j})

LinkedTotal(txs, invoice_pk) ==
    AmountOf(txs, {j \in DOMAIN txs : txs[j].invoice = invoice_pk})

\* C7: paying an Invoice adds one row to the Transaction table; when the
\* Invoice was unpaid the row is an expense on a bank account with no card
\* and no invoice, flagged is_invoice_payment, under the payment category,
\* dated payment_date, its amount the total of the rows linked to the Invoice
\* before the payment; the Invoice becomes paid on payment_date; no other row
\* of either table changes.
C7_PaymentCreatesOneExpense ==
    [][last'.op = "pay"
       => \E pk \in DOMAIN invoices :
            /\ payments' = payments \cup {<<pk, Len(transactions) + 1>>}
            /\ ~invoices[pk].is_paid
               => /\ Len(transactions') = Len(transactions) + 1
                  /\ SubSeq(transactions', 1, Len(transactions)) = transactions
                  /\ LET t == transactions'[Len(transactions')]
                     IN  /\ t.transaction_type = "OUT"
                         /\ t.bank_account \in BankAccounts
                         /\ t.credit_card = NoPk
                         /\ t.invoice = NoPk
                         /\ t.is_invoice_payment
                         /\ t.category = PaymentCategoryName
                         /\ PaymentCategoryName \in categories'
                         /\ t.date # NoDate
                         /\ t.amount = LinkedTotal(transactions, pk)
                         /\ invoices' = [invoices EXCEPT ![pk] =
                                [@ EXCEPT !.is_paid = TRUE,
                                          !.payment_date = t.date]]]_vars

\* an unpaid invoice with a purchase of 100.00 and a refund of 25.05 linked
\* to it has just been paid with one expense of 125.05
C7_Witness ==
    /\ last = Request("pay", "ok")
    /\ Len(transactions) = 3
    /\ payments = {<<1, 3>>}
    /\ transactions[1].invoice = 1
    /\ transactions[2].invoice = 1
    /\ transactions[1].amount = 10000
    /\ transactions[2].amount = 2505
    /\ transactions[2].transaction_type = "IN"
    /\ transactions[3].amount = 12505
    /\ transactions[3].is_invoice_payment
    /\ invoices[1].is_paid
    /\ invoices[1].payment_date = D(2024, 3, 5)

\* C8 as stated: once an Invoice is paid it stays paid, and only the payment
\* workflow changes an Invoice's is_paid or payment_date.
C8_PaidIsTerminal ==
    [][\A pk \in DOMAIN invoices :
          /\ invoices[pk].is_paid => invoices'[pk].is_paid
          /\ (invoices'[pk].is_paid # invoices[pk].is_paid
              \/ invoices'[pk].payment_date # invoices[pk].payment_date)
             => last'.op = "pay"]_vars

\* C8 amended: an Invoice's payment_date is changed only by the payment
\* workflow; its is_paid is changed only by the payment workflow, which sets
\* it, or by an edit through InvoiceUpdateView/InvoiceForm, which may set or
\* clear it; creating and editing transactions change neither.
C8_PaidChangesOnlyByPaymentOrEdit ==
    [][\A pk \in DOMAIN invoices :
          /\ invoices'[pk].payment_date # invoices[pk].payment_date
             => last'.op = "pay"
          /\ (~invoices[pk].is_paid /\ invoices'[pk].is_paid)
             => last'.op \in {"pay", "invoice_update"}
          /\ (invoices[pk].is_paid /\ ~invoices'[pk].is_paid)
             => last'.op = "invoice_update"]_vars

\* an invoice was paid and an edit through InvoiceForm has then unchecked
\* is_paid: it is unpaid and still carries its payment_date
C8_Witness ==
    /\ last = Request("invoice_update", "ok")
    /\ \E pk \in DOMAIN invoices :
          /\ ~invoices[pk].is_paid
          /\ invoices[pk].payment_date # NoDate
          /\ \E x \in payments : x[1] = pk

\* start_date plus i calendar months: the same day of the month when the
\* target month has it, otherwise the last day of the target month
PlusMonths(start_date, i) ==
    LET k == start_date.year * 12 + (start_date.month - 1) + i
        y == k \div 12
        m == (k % 12) + 1
    IN  IF start_date.day <= DaysInMonth(y, m)
        THEN D(y, m, start_date.day)
        ELSE D(y, m, DaysInMonth(y, m))

\* C10: a create request of an installment purchase that succeeds adds
\* exactly count >= 2 rows after the rows already there; the i-th (from 0) is
\* dated the first one's date plus i calendar months, clipped from that start
\* date, carries the description suffixed (i+1/count), and has the account,
\* category and type of the first.
C10_InstallmentSchedule ==
    [][(/\ last'.op = "create"
        /\ last'.outcome = "ok"
        /\ Len(transactions') > Len(transactions)
        /\ transactions'[Len(transactions')].description.of > 0)
       => LET base == Len(transactions)
              count == transactions'[Len(transactions')].description.of
              first == transactions'[base + 1]
          IN  /\ count >= 2
              /\ Len(transactions') = base + count
              /\ SubSeq(transactions', 1, base) = transactions
              /\ \A i \in 0..(count - 1) :
                    LET t == transactions'[base + 1 + i]
                    IN  /\ t.date = PlusMonths(first.date, i)
                        /\ t.description =
                              [text |-> first.description.text,
                               idx |-> i + 1, of |-> count]
                        /\ t.bank_account = first.bank_account
                        /\ t.credit_card = first.credit_card
                        /\ t.category = first.category
                        /\ t.transaction_type = first.transaction_type]_vars

\* three installments from 2024-01-31: the second is clipped to 2024-02-29
\* and the third is 2024-03-31 again
C10_Witness ==
    /\ last = Request("create", "ok")
    /\ Len(transactions) = 3
    /\ \A i \in 1..3 : transactions[i].description = [text |-> "Compra", idx |-> i, of |-> 3]
    /\ transactions[1].date = D(2024, 1, 31)
    /\ transactions[2].date = D(2024, 2, 29)
    /\ transactions[3].date = D(2024, 3, 31)

Abs(x) == IF x < 0 THEN 0 - x ELSE x

\* C11: whenever an installment purchase of total_amount cents in count >= 2
\* parts is created, every one of the count rows has the amount nearest to
\* total_amount / count in whole cents, and the amounts of the count rows add
\* up to within count cents of total_amount.
C11_InstallmentRounding ==
    [][\A description \in RoundInputs.descriptions,
          total_amount \in RoundInputs.amounts,
          transaction_type \in RoundInputs.types,
          date \in RoundInputs.dates,
          category \in RoundInputs.categories,
          account_choice \in RoundInputs.account_choices,
          count \in 2..MaxInstallments :
          (/\ TransactionCreate(description, total_amount, transaction_type,
                                date, category, account_choice, TRUE, count,
                                "monthly")
           /\ last'.outcome = "ok")
          => LET new == (Len(transactions) + 1)..Len(transactions')
             IN  /\ Cardinality(new) = count
                 /\ \A j \in new :
                       2 * Abs(count * transactions'[j].amount - total_amount)
                       <= count
                 /\ Abs(AmountOf(transactions', new) - total_amount) <= count]_vars

\* 100.00 in three parts: three rows of 33.33, one cent short of the total
C11_Witness ==
    /\ last = Request("create", "ok")
    /\ Len(transactions) = 3
    /\ \A j \in 1..3 :
          /\ transactions[j].amount = 3333
          /\ transactions[j].description.of = 3

\* C12: in every reachable state each row of the Transaction table has
\* exactly one of bank_account and credit_card; and a save, of a new instance
\* or of an existing row, with both set or with neither set ends in an
\* error and changes neither the Transaction table nor the Invoice table.
C12_ExactlyOneAccount ==
    /\ [](\A j \in DOMAIN transactions :
             (transactions[j].bank_account = NoPk)
             # (transactions[j].credit_card = NoPk))
    /\ [][\A pk \in {NoPk} \cup DOMAIN transactions,
             description \in AccountsInputs.descriptions,
             amount \in AccountsInputs.amounts,
             transaction_type \in AccountsInputs.types,
             date \in AccountsInputs.dates,
             category \in AccountsInputs.categories,
             bank_account \in AccountsInputs.save_banks,
             credit_card \in AccountsInputs.save_cards :
             (/\ (bank_account = NoPk) = (credit_card = NoPk)
              /\ SaveInstance(pk, description, amount, transaction_type, date,
                              category, bank_account, credit_card))
             => /\ last'.outcome = "error"
                /\ transactions' = transactions
                /\ invoices' = invoices]_vars

\* a save has just been refused in a store that holds a bank-account row and
\* a credit-card row
C12_Witness ==
    /\ last = Request("save", "error")
    /\ \E i, j \in DOMAIN transactions :
          /\ transactions[i].bank_account # NoPk
          /\ transactions[i].credit_card = NoPk
          /\ transactions[j].credit_card # NoPk
          /\ transactions[j].bank_account = NoPk

\* the totals of a set of invoices, added up invoice by invoice
RECURSIVE TotalsOf(_, _)
TotalsOf(txs, keys) ==
    IF keys = {} THEN 0
    ELSE LET i == CHOOSE x \in keys : TRUE
         IN  LinkedTotal(txs, i) + TotalsOf(txs, keys \ {i})

\* the rows the payment workflow created
PaymentRows == {x[2] : x \in payments}

\* C13: the realized expenses the consolidated summary of a month reports
\* are the expenses of the month on bank accounts other than the rows the
\* payment workflow created, plus, once for each invoice paid with
\* payment_date in the month, the total of the rows linked to it.
C13_PaymentCountedOnce ==
    last.op = "consolidated"
    => LET ordinary == {j \in DOMAIN transactions \ PaymentRows :
                           /\ transactions[j].bank_account # NoPk
                           /\ transactions[j].transaction_type = "OUT"
                           /\ InMonth(transactions[j].date, last.year,
                                      last.month)}
           paid == {i \in DOMAIN invoices :
                       /\ invoices[i].is_paid
                       /\ InMonth(invoices[i].payment_date, last.year,
                                  last.month)}
       IN  last.context.realized_expenses
           = AmountOf(transactions, ordinary) + TotalsOf(transactions, paid)

\* the summary of March 2024 after an invoice of 100.00 was paid on
\* 2024-03-05: the realized expenses are 100.00, the payment row of 100.00
\* dated in March not being added to them
C13_Witness ==
    /\ last.op = "consolidated"
    /\ last.year = 2024
    /\ last.month = 3
    /\ last.context.realized_expenses = 10000
    /\ payments = {<<1, 2>>}
    /\ invoices[1].is_paid
    /\ invoices[1].payment_date = D(2024, 3, 5)
    /\ transactions[2].date = D(2024, 3, 5)
    /\ transactions[2].amount = 10000
    /\ transactions[2].transaction_type = "OUT"
    /\ transactions[2].bank_account # NoPk

\* the lines of the summary last answered that stand for invoice i
InvoiceLines(i) ==
    {k \in DOMAIN last.context.items :
        /\ last.context.items[k].is_invoice
        /\ last.context.items[k].object = i}

\* C14: in the consolidated summary of a month an invoice has a line if and
\* only if it is unpaid and due in the month or paid with payment_date in the
\* month; it then has one line, flagged predicted exactly when it is unpaid,
\* whose amount is the total of the rows linked to it; and the predicted
\* expenses are the realized expenses plus the totals of the unpaid invoices
\* due in the month.
C14_InvoicesOfTheMonth ==
    last.op = "consolidated"
    => LET due == {i \in DOMAIN invoices :
                      /\ ~invoices[i].is_paid
                      /\ InMonth(invoices[i].due_date, last.year, last.month)}
           paid == {i \in DOMAIN invoices :
                       /\ invoices[i].is_paid
                       /\ InMonth(invoices[i].payment_date, last.year,
                                  last.month)}
       IN  /\ \A i \in DOMAIN invoices :
                 IF i \in due \cup paid
                 THEN /\ Cardinality(InvoiceLines(i)) = 1
                      /\ \A k \in InvoiceLines(i) :
                            /\ last.context.items[k].is_predicted = (i \in due)
                            /\ last.context.items[k].amount
                               = LinkedTotal(transactions, i)
                 ELSE InvoiceLines(i) = {}
           /\ \A k \in DOMAIN last.context.items :
                 last.context.items[k].is_invoice
                 => last.context.items[k].object \in DOMAIN invoices
           /\ last.context.predicted_expenses
              = last.context.realized_expenses + TotalsOf(transactions, due)

\* the summary of March 2024 lists one invoice of 100.00 paid on 2024-03-05
\* as realized and another of 100.00, unpaid and due on 2024-03-10, as
\* predicted; the predicted expenses exceed the realized ones by the 100.00
\* of the second
C14_Witness ==
    /\ last.op = "consolidated"
    /\ last.year = 2024
    /\ last.month = 3
    /\ Len(invoices) = 2
    /\ invoices[1].is_paid
    /\ invoices[1].payment_date = D(2024, 3, 5)
    /\ ~invoices[2].is_paid
    /\ invoices[2].due_date = D(2024, 3, 10)
    /\ \E k, n \in DOMAIN last.context.items :
          /\ last.context.items[k].is_invoice
          /\ last.context.items[k].object = 1
          /\ ~last.context.items[k].is_predicted
          /\ last.context.items[k].amount = 10000
          /\ last.context.items[n].is_invoice
          /\ last.context.items[n].object = 2
          /\ last.context.items[n].is_predicted
          /\ last.context.items[n].amount = 10000
    /\ last.context.realized_expenses = 10000
    /\ last.context.predicted_expenses = 20000

\* C15 as stated: an edit of a credit-card transaction that leaves it on its
\* card keeps the Invoice it was linked to and creates no Invoice.
C15_EditKeepsInvoice ==
    [][last'.op = "update"
       => \A pk \in DOMAIN transactions :
            (/\ transactions[pk].credit_card # NoPk
             /\ transactions'[pk].credit_card = transactions[pk].credit_card)
            => /\ transactions'[pk].invoice = transactions[pk].invoice
               /\ transactions'[pk] # transactions[pk]
                  => Len(invoices') = Len(invoices)]_vars

\* C15 amended: an edit through TransactionUpdateView runs Transaction.save
\* and with it invoice assignment.  An edit that fails changes nothing.  An
\* edit that succeeds and leaves the row on a credit card links it to an
\* Invoice of that card that ends on the closing date of the cycle of the
\* row's date after the edit; that Invoice is the only one the edit may
\* create, and it creates it only when the card had none with that end date;
\* every Invoice there was, the one the row was linked to included, is left
\* as it was.
C15_EditReassignsInvoice ==
    [][\A pk \in DOMAIN transactions,
          description \in BillingInputs.descriptions,
          amount \in BillingInputs.amounts,
          transaction_type \in BillingInputs.types,
          date \in BillingInputs.update_dates,
          category \in BillingInputs.categories,
          account_choice \in BillingInputs.update_choices :
          TransactionUpdate(pk, description, amount, transaction_type, date,
                            category, account_choice)
          => /\ Len(transactions') = Len(transactions)
             /\ SubSeq(invoices', 1, Len(invoices)) = invoices
             /\ Len(invoices') <= Len(invoices) + 1
             /\ last'.outcome = "error"
                => (transactions' = transactions /\ invoices' = invoices)
             /\ (last'.outcome = "ok" /\ account_choice.type = "creditcard")
                => LET t == transactions'[pk]
                       end_date == ExpectedEndDate(cards[t.credit_card], date)
                   IN  /\ t.date = date
                       /\ t.credit_card = account_choice.id
                       /\ t.invoice \in DOMAIN invoices'
                       /\ invoices'[t.invoice].credit_card = t.credit_card
                       /\ invoices'[t.invoice].end_date = end_date
                       /\ Len(invoices') > Len(invoices)
                          => /\ t.invoice = Len(invoices')
                             /\ InvoiceLookup(invoices, t.credit_card,
                                              end_date) = {}]_vars

\* a purchase of 2024-01-20 on card 1 was edited to 2024-01-26: it has moved
\* from the invoice that ends on 2024-01-25, which is still there, to a new
\* one that ends on 2024-02-25
C15_Witness ==
    /\ last = Request("update", "ok")
    /\ Len(transactions) = 1
    /\ Len(invoices) = 2
    /\ transactions[1].credit_card = 1
    /\ transactions[1].date = D(2024, 1, 26)
    /\ transactions[1].invoice = 2
    /\ invoices[1].credit_card = 1
    /\ invoices[1].end_date = D(2024, 1, 25)
    /\ invoices[2].credit_card = 1
    /\ invoices[2].end_date = D(2024, 2, 25)

\* C16: the detailed list of a month holds exactly the bank-account
\* transactions dated in the month that are not invoice payments, and its
\* income, expenses and balance are sums over those rows alone.
C16_ListHoldsBankTransactionsOnly ==
    last.op = "list"
    => LET bank == {j \in DOMAIN transactions :
                       /\ transactions[j].bank_account # NoPk
                       /\ ~transactions[j].is_invoice_payment
                       /\ InMonth(transactions[j].date, last.year,
                                  last.month)}
           income == AmountOf(transactions,
                        {j \in bank : transactions[j].transaction_type = "IN"})
           expenses == AmountOf(transactions,
                        {j \in bank : transactions[j].transaction_type = "OUT"})
       IN  /\ {last.context.items[k].object :
                  k \in DOMAIN last.context.items} = bank
           /\ Len(last.context.items) = Cardinality(bank)
           /\ last.context.current_month_income = income
           /\ last.context.current_month_expenses = expenses
           /\ last.context.monthly_balance = income - expenses

\* C17: a Transaction has an invoice if and only if it has a credit_card,
\* and the invoice is one of that credit_card; so no bank-account
\* transaction is linked to an Invoice.
C17_InvoiceIffCreditCard ==
    \A j \in DOMAIN transactions :
        /\ (transactions[j].invoice # NoPk)
           = (transactions[j].credit_card # NoPk)
        /\ transactions[j].invoice # NoPk
           => /\ transactions[j].invoice \in DOMAIN invoices
              /\ invoices[transactions[j].invoice].credit_card
                 = transactions[j].credit_card

\* C18: the realized closing balance the consolidated summary reports for a
\* month is the previous balance it reports for the month after.
C18_BalancesChain ==
    last.op = "consolidated"
    => LET following == AddMonths(D(last.year, last.month, 1), 1)
       IN  last.context.real_balance
           = Consolidated(transactions, invoices, following.year,
                          following.month).previous_balance

\* C19: every credit-card transaction a create request stores is dated
\* within the period of the Invoice it is linked to, from the Invoice's
\* start_date to its end_date.
C19_DateWithinInvoicePeriod ==
    [][last'.op = "create"
       => \A j \in (Len(transactions) + 1)..Len(transactions') :
            transactions'[j].credit_card # NoPk
            => LET t == transactions'[j]
               IN  /\ t.invoice \in DOMAIN invoices'
                   /\ ~DateLt(t.date, StartDate(invoices', t.invoice))
                   /\ ~DateLt(invoices'[t.invoice].end_date, t.date)]_vars

====
